---- MODULE Spec2Model ----
(***************************************************************************)
(* Model of the stop-identity reconciliation tasks of WarsawTemporaryGTFS: *)
(* FixStops (fix_stops.py:69-230) and MergeVirtualStops                    *)
(* (fix_stops.py:296-341), run against the stops / stop_times tables, and  *)
(* MergeRoutes (merge_routes.py:7-31), run against routes / trips.         *)
(*                                                                         *)
(* Text is modelled as a sequence of one-character strings, so that        *)
(* slicing, regular expressions and concatenation work as in the source.   *)
(* A non-ASCII letter is written as its code point, e.g. "U+017C".         *)
(* Coordinates are integers in millidegrees, relative to 52.200N 21.000E;  *)
(* distances are integers in metres.                                       *)
(***************************************************************************)
EXTENDS Integers, Sequences, FiniteSets, TLC

VARIABLES
    task,                     \* which Task.execute is being run
    pc,                       \* position inside execute
    run,                      \* "first" or "second" invocation of FixStops.execute
    resources,                \* r.resources: stops.json and extra_stop_groups.json
    stops,                    \* table stops, in rowid order
    stop_times,               \* table stop_times: rowid -> stop_id
    before,                   \* the tables as of BEGIN (what ROLLBACK restores)
    first,                    \* the tables as committed by the first FixStops run
    seen_ids,                 \* FixStops.seen_ids
    external_groups_by_slug,  \* FixStops.external_groups_by_slug
    stops_list,               \* local `stops` of FixStops.execute
    idx,                      \* position of the for loop of execute
    calls,                    \* the match_stop calls of this run, with what they returned
    log,                      \* records emitted through self.logger
    all_ids,                  \* local `all` of MergeVirtualStops.execute
    virtual,                  \* local `virtual` of MergeVirtualStops.execute
    pending,                  \* virtual ids the generator has not reached yet
    pairs,                    \* what generate_replacement_pairs found per virtual id
    routes,                   \* table routes, in rowid order
    trips,                    \* table trips: rowid -> route_id
    routes_before,            \* routes and trips as of BEGIN
    routes_by_short_name,     \* local `routes_by_short_name` of MergeRoutes.execute
    merges                    \* the short names MergeRoutes handled, with the outcome

vars == <<task, pc, run, resources, stops, stop_times, before, first, seen_ids,
          external_groups_by_slug, stops_list, idx, calls, log, all_ids, virtual,
          pending, pairs, routes, trips, routes_before, routes_by_short_name, merges>>

----------------------------------------------------------------------------
(* Characters *)

Digits == {"0", "1", "2", "3", "4", "5", "6", "7", "8", "9"}

UpperAscii == <<"A", "B", "C", "D", "E", "F", "G", "H", "I", "J", "K", "L", "M",
                "N", "O", "P", "Q", "R", "S", "T", "U", "V", "W", "X", "Y", "Z">>

LowerAscii == <<"a", "b", "c", "d", "e", "f", "g", "h", "i", "j", "k", "l", "m",
                "n", "o", "p", "q", "r", "s", "t", "u", "v", "w", "x", "y", "z">>

\* a-ogonek, c-acute, e-ogonek, l-stroke, n-acute, o-acute, s-acute, z-acute, z-dot
PolishLower == <<"U+0105", "U+0107", "U+0119", "U+0142", "U+0144", "U+00F3",
                 "U+015B", "U+017A", "U+017C">>

PolishUpper == <<"U+0104", "U+0106", "U+0118", "U+0141", "U+0143", "U+00D3",
                 "U+015A", "U+0179", "U+017B">>

Range(s) == {s[k] : k \in DOMAIN s}

IndexOf(s, c) == CHOOSE k \in DOMAIN s : s[k] = c

UpperLetters == Range(UpperAscii) \cup Range(PolishUpper)

\* str.lower(), one character
lower(c) ==
    IF c \notin UpperLetters THEN c
    ELSE IF c \in Range(UpperAscii) THEN LowerAscii[IndexOf(UpperAscii, c)]
    ELSE PolishLower[IndexOf(PolishUpper, c)]

\* NO_POLISH_DIACRITICS_MAP: the 18 letters and what each is replaced by
NO_POLISH_DIACRITICS_FROM == PolishLower \o PolishUpper

NO_POLISH_DIACRITICS_TO == <<"a", "c", "e", "l", "n", "o", "s", "z", "z",
                             "A", "C", "E", "L", "N", "O", "S", "Z", "Z">>

NO_POLISH_DIACRITICS_KEYS == Range(NO_POLISH_DIACRITICS_FROM)

\* str.translate(NO_POLISH_DIACRITICS_MAP), one character
translate(c) ==
    IF c \in NO_POLISH_DIACRITICS_KEYS
    THEN NO_POLISH_DIACRITICS_TO[IndexOf(NO_POLISH_DIACRITICS_FROM, c)]
    ELSE c

\* the class \w of the re module on str: letters, digits and the underscore
WordChars ==
    Range(UpperAscii) \cup Range(LowerAscii) \cup Range(PolishUpper)
        \cup Range(PolishLower) \cup Digits \cup {"_"}

IsWordChar(c) == c \in WordChars

NAME_WORD_NORMALIZE(word) ==
    CASE word = <<"o", "s", "i", "e", "d", "l", "e">> -> <<"o", "s">>
      [] word = <<"d", "w", "o", "r", "z", "e", "c">> -> <<"d", "w">>
      [] word = <<"c", "m", "e", "n", "t", "a", "r", "z">> -> <<"c", "m">>
      [] word = <<"p", "l", "a", "c">> -> <<"p", "l">>
      [] word = <<"a", "l", "e", "j", "a">> -> <<"a", "l">>
      [] word = <<"a", "l", "e", "j", "e">> -> <<"a", "l">>
      [] OTHER -> word

\* re.findall(r"\w+", s): the maximal runs of word characters of s, in order
RECURSIVE findall_words(_, _, _)
findall_words(s, cur, acc) ==
    IF s = <<>> THEN (IF cur = <<>> THEN acc ELSE Append(acc, cur))
    ELSE IF IsWordChar(Head(s)) THEN findall_words(Tail(s), Append(cur, Head(s)), acc)
    ELSE findall_words(Tail(s), <<>>, IF cur = <<>> THEN acc ELSE Append(acc, cur))

\* "_".join(words)
RECURSIVE join_underscore(_)
join_underscore(words) ==
    IF words = <<>> THEN <<>>
    ELSE IF Len(words) = 1 THEN words[1]
    ELSE words[1] \o <<"_">> \o join_underscore(Tail(words))

slugify_name(name) ==
    LET folded == [k \in DOMAIN name |-> translate(lower(name[k]))]
        words == findall_words(folded, <<>>, <<>>)
    IN  join_underscore([k \in DOMAIN words |-> NAME_WORD_NORMALIZE(words[k])])

----------------------------------------------------------------------------
(* Distances *)

\* EARTH_RADIUS_KM = 6364.9: one millidegree of arc is 6364900 * pi / 180000 m
METRES_PER_MILLIDEGREE == 111

\* cos(lat1) * cos(lat2) at 52.2N, in thousandths (cos 52.2 = 0.6129)
COS_LAT_SQUARED_PERMILLE == 376

\* d > 1.5 (km), in metres
TOO_FAR_METRES == 1500

Abs(n) == IF n < 0 THEN -n ELSE n

\* floor of the square root, by bisection on lo <= sqrt(n) < hi
RECURSIVE isqrt_between(_, _, _)
isqrt_between(n, lo, hi) ==
    IF hi - lo <= 1 THEN lo
    ELSE LET mid == (lo + hi) \div 2
         IN  IF mid * mid <= n THEN isqrt_between(n, mid, hi)
             ELSE isqrt_between(n, lo, mid)

isqrt(n) == isqrt_between(n, 0, 46340)

\* distance_km, in whole metres.  For the few kilometres the model spans,
\* sin x = x and asin x = x to well under a metre, so the haversine formula is
\* R * sqrt(dlat^2 + cos(lat1) cos(lat2) dlon^2) with the angles in radians.
distance_km(lat1, lon1, lat2, lon2) ==
    LET dlat == METRES_PER_MILLIDEGREE * Abs(lat2 - lat1)
        dlon == METRES_PER_MILLIDEGREE * Abs(lon2 - lon1)
    IN  isqrt(dlat * dlat + ((dlon * dlon) \div 1000) * COS_LAT_SQUARED_PERMILLE)

\* math.dist((g.lat, g.lon), (stop.lat, stop.lon)), squared: min() only compares
\* the keys, and the square root is monotone
math_dist(lat1, lon1, lat2, lon2) ==
    (lat2 - lat1) * (lat2 - lat1) + (lon2 - lon1) * (lon2 - lon1)

----------------------------------------------------------------------------
(* Records *)

\* impuls.model.Stop, the fields the tasks read
Stop(id, name, code, lat, lon) ==
    [id |-> id, name |-> name, code |-> code, lat |-> lat, lon |-> lon]

ExternalStop(id, name, lat, lon) == [id |-> id, name |-> name, lat |-> lat, lon |-> lon]

ExternalStopGroup(id, slug, lat, lon) == [id |-> id, slug |-> slug, lat |-> lat, lon |-> lon]

\* s[:n]
Prefix(s, n) == SubSeq(s, 1, IF n < Len(s) THEN n ELSE Len(s))

\* s[n:]
Suffix(s, n) == SubSeq(s, n + 1, Len(s))

RECURSIVE Sum(_)
Sum(s) == IF s = <<>> THEN 0 ELSE Head(s) + Sum(Tail(s))

\* statistics.mean of coordinates, rounded down to the model's millidegree
mean(s) == Sum(s) \div Len(s)

----------------------------------------------------------------------------
(* FixStops.load_external_data *)

\* dict[id] = value on an insertion-ordered dict, kept as a sequence of values
DictPut(d, e) ==
    IF \E k \in DOMAIN d : d[k].id = e.id
    THEN [k \in DOMAIN d |-> IF d[k].id = e.id THEN e ELSE d[k]]
    ELSE Append(d, e)

\* obj of one raw_obj: zespol, slupek, nazwa_zespolu, szer_geo, dlug_geo
RECURSIVE load_external_stops_by_id(_, _)
load_external_stops_by_id(result, d) ==
    IF result = <<>> THEN d
    ELSE LET obj == Head(result)
             id == obj.zespol \o obj.slupek
         IN  IF SubSeq(id, 2, 3) \in {<<"6", "0">>, <<"6", "1">>}
             THEN load_external_stops_by_id(Tail(result), d)
             ELSE load_external_stops_by_id(
                      Tail(result),
                      DictPut(d, ExternalStop(id, obj.nazwa_zespolu, obj.szer_geo, obj.dlug_geo)))

\* the keys of stops_by_group_id, in the order they were first inserted
RECURSIVE group_ids_in_order(_, _)
group_ids_in_order(by_id, acc) ==
    IF by_id = <<>> THEN acc
    ELSE LET g == Prefix(Head(by_id).id, 4)
         IN  group_ids_in_order(Tail(by_id),
                                IF g \in Range(acc) THEN acc ELSE Append(acc, g))

load_external_groups_by_slug(by_id, extra_groups) ==
    LET keys == group_ids_in_order(by_id, <<>>)
        members(g) == SelectSeq(by_id, LAMBDA s : Prefix(s.id, 4) = g)
        derived == [k \in DOMAIN keys |->
                       LET m == members(keys[k])
                       IN  ExternalStopGroup(keys[k],
                                             slugify_name(m[1].name),
                                             mean([j \in DOMAIN m |-> m[j].lat]),
                                             mean([j \in DOMAIN m |-> m[j].lon]))]
        groups == extra_groups \o derived
    IN  [slug \in {groups[k].slug : k \in DOMAIN groups} |->
            SelectSeq(groups, LAMBDA g : g.slug = slug)]

load_external_data(res) ==
    load_external_groups_by_slug(load_external_stops_by_id(res.stops, <<>>),
                                 res.extra_groups)

\* dict.get(key): None is modelled as the empty list, which is as falsy
DictGet(d, key) == IF key \in DOMAIN d THEN d[key] ELSE <<>>

----------------------------------------------------------------------------
(* FixStops.match_stop *)

\* re.match(r"^[0-9][0-9]$", code): "$" also matches before a final newline
re_match_code(code) ==
    /\ Len(code) \in {2, 3}
    /\ code[1] \in Digits
    /\ code[2] \in Digits
    /\ Len(code) = 3 => code[3] = "\n"

NoGroup == ExternalStopGroup(<<>>, <<>>, 0, 0)

LogRecord(level, msg, stop) == [level |-> level, msg |-> msg, stop |-> stop.id]

\* what a call returns ("ret"), with what it logged and the group it settled on
Outcome(ret, logged, group) == [ret |-> ret, logged |-> logged, group |-> group]

\* new_id with the two parts in the wrong order
new_id_code_first(group, stop) == stop.code \o group.id

\* new_id built from the stop's id instead of its code
new_id_from_stop_id(group, stop) == group.id \o stop.id

new_id(group, stop) == group.id \o stop.code

\* unmatch_if_too_far without the distance check
unmatch_if_too_far_unchecked(stop, group, id) == Outcome(id, <<>>, group)

\* unmatch_if_too_far rejecting without a log record
unmatch_if_too_far_silent(stop, group, id) ==
    IF distance_km(stop.lat, stop.lon, group.lat, group.lon) > TOO_FAR_METRES
    THEN Outcome(<<>>, <<>>, group)
    ELSE Outcome(id, <<>>, group)

unmatch_if_too_far(stop, group, id) ==
    LET d == distance_km(stop.lat, stop.lon, group.lat, group.lon)
    IN  IF d > TOO_FAR_METRES
        THEN Outcome(<<>>, <<LogRecord("warning", "too far", stop)>>, group)
        ELSE Outcome(id, <<>>, group)

\* min(group_matches, key=...): the first element with the smallest key
\* min(..., key=...) breaking ties towards the last of the nearest groups
min_by_dist_last(group_matches, stop) ==
    LET key(g) == math_dist(g.lat, g.lon, stop.lat, stop.lon)
        k == CHOOSE k \in DOMAIN group_matches :
                 /\ \A j \in DOMAIN group_matches : key(group_matches[k]) <= key(group_matches[j])
                 /\ \A j \in (k + 1)..Len(group_matches) : key(group_matches[j]) > key(group_matches[k])
    IN  group_matches[k]

min_by_dist(group_matches, stop) ==
    LET key(g) == math_dist(g.lat, g.lon, stop.lat, stop.lon)
        k == CHOOSE k \in DOMAIN group_matches :
                 /\ \A j \in DOMAIN group_matches : key(group_matches[k]) <= key(group_matches[j])
                 /\ \A j \in 1..(k - 1) : key(group_matches[j]) > key(group_matches[k])
    IN  group_matches[k]

match_stop(stop, by_slug) ==
    IF ~re_match_code(stop.code)
    THEN Outcome(<<>>, <<LogRecord("error", "invalid code", stop)>>, NoGroup)
    ELSE LET group_matches == DictGet(by_slug, slugify_name(stop.name))
         IN  IF Len(group_matches) = 1
             THEN unmatch_if_too_far(stop, group_matches[1], new_id(group_matches[1], stop))
             ELSE IF Len(group_matches) > 0
             THEN LET group == min_by_dist(group_matches, stop)
                  IN  unmatch_if_too_far(stop, group, new_id(group, stop))
             ELSE Outcome(<<>>, <<LogRecord("warning", "unknown group slug", stop)>>, NoGroup)

----------------------------------------------------------------------------
(* The feed database.  stop_times.stop_id references stops.stop_id with      *)
(* ON UPDATE CASCADE ON DELETE CASCADE, and stops.stop_id is the primary key. *)

Db(s, st) == [stops |-> s, stop_times |-> st]

StopIds(s) == {s[k].id : k \in DOMAIN s}

\* the result of a statement; ok = FALSE is sqlite3.IntegrityError
Ran(db) == [ok |-> TRUE, db |-> db]

Refused(db) == [ok |-> FALSE, db |-> db]

GTFS_PREFIX == <<"_", "g", "t", "f", "s", "_">>

\* UPDATE stops SET stop_id = concat('_gtfs_', stop_id), rows in rowid order
sql_prefix_stop_ids(db) ==
    LET renamed(id) == GTFS_PREFIX \o id
    IN  IF \E j, k \in DOMAIN db.stops :
               j < k /\ renamed(db.stops[j].id) = db.stops[k].id
        THEN Refused(db)
        ELSE Ran(Db([k \in DOMAIN db.stops |->
                        [db.stops[k] EXCEPT !.id = renamed(db.stops[k].id)]],
                    [r \in DOMAIN db.stop_times |-> renamed(db.stop_times[r])]))

\* UPDATE stops SET stop_id = new WHERE stop_id = old
sql_update_stop_id(db, new, old) ==
    IF old \notin StopIds(db.stops) THEN Ran(db)
    ELSE IF new # old /\ new \in StopIds(db.stops) THEN Refused(db)
    ELSE Ran(Db([k \in DOMAIN db.stops |->
                    IF db.stops[k].id = old
                    THEN [db.stops[k] EXCEPT !.id = new] ELSE db.stops[k]],
                [r \in DOMAIN db.stop_times |->
                    IF db.stop_times[r] = old THEN new ELSE db.stop_times[r]]))

\* UPDATE stop_times SET stop_id = new WHERE stop_id = old
sql_update_stop_times(db, new, old) ==
    IF /\ \E r \in DOMAIN db.stop_times : db.stop_times[r] = old
       /\ new \notin StopIds(db.stops)
    THEN Refused(db)
    ELSE Ran(Db(db.stops,
                [r \in DOMAIN db.stop_times |->
                    IF db.stop_times[r] = old THEN new ELSE db.stop_times[r]]))

\* DELETE FROM stops WHERE stop_id = id
sql_delete_stop(db, id) ==
    Ran(Db(SelectSeq(db.stops, LAMBDA s : s.id # id),
           [r \in {q \in DOMAIN db.stop_times : db.stop_times[q] # id} |->
               db.stop_times[r]]))

\* statements run outside any transaction: an exception undoes nothing
NoRollback(snapshot) == Db(stops, stop_times)

\* what leaving `with r.db.transaction()` through an exception restores
Rollback(snapshot) == snapshot

----------------------------------------------------------------------------
(* FixStops.process_stop *)

\* self.seen_ids.clear()
seen_ids_clear(seen) == {}

\* a merge event that deletes the duplicate without repointing its stop_times
merge_into_delete_only(db, fixed_id, stop) == sql_delete_stop(db, stop.id)

\* the two statements of a merge event
merge_into(db, fixed_id, stop) ==
    LET repointed == sql_update_stop_times(db, fixed_id, stop.id)
    IN  IF repointed.ok THEN sql_delete_stop(repointed.db, stop.id) ELSE repointed

\* process_stop without `if fixed_id:`, so that a rejection is applied as an id
process_stop_unguarded(stop, db, seen, by_slug) ==
    LET m == match_stop(stop, by_slug)
        fixed_id == m.ret
        call(kind, ok) == [stop |-> stop, ret |-> fixed_id, group |-> m.group,
                           logged |-> m.logged, kind |-> kind, ok |-> ok]
    IN  IF fixed_id \in seen
        THEN LET done == merge_into(db, fixed_id, stop)
             IN  [ok |-> done.ok, db |-> done.db, seen_ids |-> seen,
                  logged |-> m.logged \o <<LogRecord("warning", "multiple instances", stop)>>,
                  call |-> call("merge", done.ok)]
        ELSE LET done == sql_update_stop_id(db, fixed_id, stop.id)
             IN  [ok |-> done.ok, db |-> done.db,
                  seen_ids |-> IF done.ok THEN seen \cup {fixed_id} ELSE seen,
                  logged |-> m.logged, call |-> call("rename", done.ok)]

\* process_stop without `self.seen_ids.add(fixed_id)`
process_stop_forgetful(stop, db, seen, by_slug) ==
    LET m == match_stop(stop, by_slug)
        fixed_id == m.ret
        call(kind, ok) == [stop |-> stop, ret |-> fixed_id, group |-> m.group,
                           logged |-> m.logged, kind |-> kind, ok |-> ok]
    IN  IF fixed_id # <<>>
        THEN IF fixed_id \in seen
             THEN LET done == merge_into(db, fixed_id, stop)
                  IN  [ok |-> done.ok, db |-> done.db, seen_ids |-> seen,
                       logged |-> m.logged \o <<LogRecord("warning", "multiple instances", stop)>>,
                       call |-> call("merge", done.ok)]
             ELSE LET done == sql_update_stop_id(db, fixed_id, stop.id)
                  IN  [ok |-> done.ok, db |-> done.db, seen_ids |-> seen,
                       logged |-> m.logged, call |-> call("rename", done.ok)]
        ELSE [ok |-> TRUE, db |-> db, seen_ids |-> seen, logged |-> m.logged,
              call |-> call("unresolved", TRUE)]

process_stop(stop, db, seen, by_slug) ==
    LET m == match_stop(stop, by_slug)
        fixed_id == m.ret
        \* the call as the run's history keeps it: what match_stop was given and
        \* returned, what process_stop did with it, and whether a statement raised
        call(kind, ok) == [stop |-> stop, ret |-> fixed_id, group |-> m.group,
                           logged |-> m.logged, kind |-> kind, ok |-> ok]
    IN  IF fixed_id # <<>>
        THEN IF fixed_id \in seen
             THEN LET done == merge_into(db, fixed_id, stop)
                  IN  [ok |-> done.ok, db |-> done.db, seen_ids |-> seen,
                       logged |-> m.logged \o <<LogRecord("warning", "multiple instances", stop)>>,
                       call |-> call("merge", done.ok)]
             ELSE LET done == sql_update_stop_id(db, fixed_id, stop.id)
                  IN  [ok |-> done.ok, db |-> done.db,
                       seen_ids |-> IF done.ok THEN seen \cup {fixed_id} ELSE seen,
                       logged |-> m.logged, call |-> call("rename", done.ok)]
        ELSE [ok |-> TRUE, db |-> db, seen_ids |-> seen, logged |-> m.logged,
              call |-> call("unresolved", TRUE)]

----------------------------------------------------------------------------
(* MergeVirtualStops *)

\* get_all_stop_ids: SELECT stop_id FROM stops
get_all_stop_ids(db) == StopIds(db.stops)

\* re.match(r"^[0-9]{4}8[1-9]$", i): "$" also matches before a final newline
re_match_virtual(i) ==
    /\ Len(i) \in {6, 7}
    /\ \A k \in 1..4 : i[k] \in Digits
    /\ i[5] = "8"
    /\ i[6] \in Digits \ {"0"}
    /\ Len(i) = 7 => i[7] = "\n"

find_virtual_stops(all) == {i \in all : re_match_virtual(i)}

\* str(i) for i in range(8)
RANGE_8 == <<"0", "1", "2", "3", "4", "5", "6", "7">>

\* Python's None; like the empty string it is falsy, and no stop id is empty
None == <<>>

\* find_replacement_stop without the special case for 605988
find_replacement_stop_generic(virt, all) ==
    LET candidate(i) == Prefix(virt, 4) \o <<RANGE_8[i]>> \o Suffix(virt, 5)
    IN  IF \E i \in DOMAIN RANGE_8 : candidate(i) \in all
        THEN candidate(CHOOSE i \in DOMAIN RANGE_8 :
                           /\ candidate(i) \in all
                           /\ \A j \in 1..(i - 1) : candidate(j) \notin all)
        ELSE None

\* find_replacement_stop substituting the last character instead of the fifth
find_replacement_stop_last_digit(virt, all) ==
    IF virt = <<"6", "0", "5", "9", "8", "8">> /\ <<"6", "0", "5", "9", "2", "8">> \in all
    THEN <<"6", "0", "5", "9", "2", "8">>
    ELSE LET candidate(i) == Prefix(virt, 5) \o <<RANGE_8[i]>>
         IN  IF \E i \in DOMAIN RANGE_8 : candidate(i) \in all
             THEN candidate(CHOOSE i \in DOMAIN RANGE_8 :
                                /\ candidate(i) \in all
                                /\ \A j \in 1..(i - 1) : candidate(j) \notin all)
             ELSE None

find_replacement_stop(virt, all) ==
    IF virt = <<"6", "0", "5", "9", "8", "8">> /\ <<"6", "0", "5", "9", "2", "8">> \in all
    THEN <<"6", "0", "5", "9", "2", "8">>
    ELSE LET candidate(i) == Prefix(virt, 4) \o <<RANGE_8[i]>> \o Suffix(virt, 5)
         IN  IF \E i \in DOMAIN RANGE_8 : candidate(i) \in all
             THEN candidate(CHOOSE i \in DOMAIN RANGE_8 :
                                /\ candidate(i) \in all
                                /\ \A j \in 1..(i - 1) : candidate(j) \notin all)
             ELSE None

\* a turn of the loop that deletes the virtual stop without re-pointing its
\* stop_times rows first
merge_virtual_stop_delete_only(id, all, db) ==
    LET replacement == find_replacement_stop(id, all)
    IN  IF replacement # None
        THEN LET done == sql_delete_stop(db, id)
             IN  [ok |-> done.ok, db |-> done.db,
                  logged |-> <<LogRecord("info", "merging", [id |-> id])>>,
                  pair |-> [old_id |-> id, new_id |-> replacement]]
        ELSE [ok |-> TRUE, db |-> db,
              logged |-> <<LogRecord("warning", "no replacement", [id |-> id])>>,
              pair |-> [old_id |-> id, new_id |-> None]]

\* one turn of the for loop of execute over generate_replacement_pairs
merge_virtual_stop(id, all, db) ==
    LET replacement == find_replacement_stop(id, all)
    IN  IF replacement # None
        THEN LET repointed == sql_update_stop_times(db, replacement, id)
                 done == IF repointed.ok THEN sql_delete_stop(repointed.db, id)
                         ELSE repointed
             IN  [ok |-> done.ok, db |-> done.db,
                  logged |-> <<LogRecord("info", "merging", [id |-> id])>>,
                  pair |-> [old_id |-> id, new_id |-> replacement]]
        ELSE [ok |-> TRUE, db |-> db,
              logged |-> <<LogRecord("warning", "no replacement", [id |-> id])>>,
              pair |-> [old_id |-> id, new_id |-> None]]

----------------------------------------------------------------------------
(* MergeRoutes; route ids and short names are compared only for equality and
   are modelled as strings *)

Route(route_id, short_name) == [route_id |-> route_id, short_name |-> short_name]

RoutesDb(r, t) == [routes |-> r, trips |-> t]

RouteIds(r) == {r[k].route_id : k \in DOMAIN r}

\* routes_by_short_name as the SELECT loop builds it: an insertion-ordered
\* dict, a sequence of [short_name, ids] in order of first appearance
RECURSIVE group_routes_by_short_name(_, _)
group_routes_by_short_name(rows, acc) ==
    IF rows = <<>> THEN acc
    ELSE LET row == Head(rows)
             known == \E k \in DOMAIN acc : acc[k].short_name = row.short_name
             next == IF known
                     THEN [k \in DOMAIN acc |->
                              IF acc[k].short_name = row.short_name
                              THEN [acc[k] EXCEPT !.ids = Append(@, row.route_id)]
                              ELSE acc[k]]
                     ELSE Append(acc, [short_name |-> row.short_name, ids |-> <<row.route_id>>])
         IN  group_routes_by_short_name(Tail(rows), next)

\* UPDATE routes SET route_id = new WHERE route_id = old; route_id is the
\* primary key, and trips.route_id follows it (ON UPDATE CASCADE)
sql_update_route_id(db, new, old) ==
    IF old \notin RouteIds(db.routes) THEN Ran(db)
    ELSE IF new # old /\ new \in RouteIds(db.routes) THEN Refused(db)
    ELSE Ran(RoutesDb([k \in DOMAIN db.routes |->
                          IF db.routes[k].route_id = old
                          THEN [db.routes[k] EXCEPT !.route_id = new] ELSE db.routes[k]],
                      [t \in DOMAIN db.trips |->
                          IF db.trips[t] = old THEN new ELSE db.trips[t]]))

\* UPDATE trips SET route_id = new WHERE route_id = old
sql_update_trips(db, new, old) ==
    IF /\ \E t \in DOMAIN db.trips : db.trips[t] = old
       /\ new \notin RouteIds(db.routes)
    THEN Refused(db)
    ELSE Ran(RoutesDb(db.routes,
                      [t \in DOMAIN db.trips |->
                          IF db.trips[t] = old THEN new ELSE db.trips[t]]))

\* DELETE FROM routes WHERE route_id = id; its trips go with it (ON DELETE CASCADE)
sql_delete_route(db, id) ==
    Ran(RoutesDb(SelectSeq(db.routes, LAMBDA r : r.route_id # id),
                 [t \in {q \in DOMAIN db.trips : db.trips[q] # id} |-> db.trips[t]]))

\* raw_execute_many of the UPDATE of trips over ((short_name, id) for id in ids)
RECURSIVE update_trips_many(_, _, _)
update_trips_many(done, short_name, ids) ==
    IF ids = <<>> \/ ~done.ok THEN done
    ELSE update_trips_many(sql_update_trips(done.db, short_name, Head(ids)),
                           short_name, Tail(ids))

\* raw_execute_many of the DELETE over ((id,) for id in ids)
RECURSIVE delete_routes_many(_, _)
delete_routes_many(done, ids) ==
    IF ids = <<>> \/ ~done.ok THEN done
    ELSE delete_routes_many(sql_delete_route(done.db, Head(ids)), Tail(ids))

\* one turn of `for short_name, ids in routes_by_short_name.items()`
merge_routes(short_name, ids, db) ==
    LET renamed == sql_update_route_id(db, short_name, ids[1])
        repointed == update_trips_many(renamed, short_name, Tail(ids))
    IN  delete_routes_many(repointed, Tail(ids))

----------------------------------------------------------------------------
(* Inputs *)

\* the most rows the stops table holds when FixStops runs
MaxStops == 2

\* "pl. Z" with a dotted capital Z, "Dworzec" and "X"
RawNames == { <<"p", "l", ".", " ", "U+017B">>,
              <<"D", "w", "o", "r", "z", "e", "c">>,
              <<"X">> }

\* "01", "7", "abc" and "01" followed by a newline
RawCodes == { <<"0", "1">>, <<"7">>, <<"a", "b", "c">>, <<"0", "1", "\n">> }

\* <<lat, lon>>
RawPositions == { <<0, 1>>, <<0, 20>> }

\* stop_id of the k-th row of the raw feed
RawId(k) == <<RANGE_8[k + 1]>>

RawStopRows(n) ==
    {[k \in 1..n |-> Stop(RawId(k), f[k][1], f[k][2], f[k][3][1], f[k][3][2])] :
        f \in [1..n -> RawNames \X RawCodes \X RawPositions]}

\* two stop_times rows per stop
StopTimesOf(rows) == [r \in 1..(2 * Len(rows)) |-> rows[(r + 1) \div 2].id]

\* stops.json: two posts of group 1234 "Plac Z" (dotted Z), one post of group
\* 5678 "Dworzec", and a metro station 1605, which the loader skips
STOPS_JSON ==
    << [zespol |-> <<"1", "2", "3", "4">>, slupek |-> <<"0", "1">>,
        nazwa_zespolu |-> <<"P", "l", "a", "c", " ", "U+017B">>,
        szer_geo |-> 0, dlug_geo |-> 0],
       [zespol |-> <<"1", "2", "3", "4">>, slupek |-> <<"0", "2">>,
        nazwa_zespolu |-> <<"P", "l", "a", "c", " ", "U+017B">>,
        szer_geo |-> 0, dlug_geo |-> 2],
       [zespol |-> <<"5", "6", "7", "8">>, slupek |-> <<"0", "1">>,
        nazwa_zespolu |-> <<"D", "w", "o", "r", "z", "e", "c">>,
        szer_geo |-> 0, dlug_geo |-> 30],
       [zespol |-> <<"1", "6", "0", "5">>, slupek |-> <<"0", "1">>,
        nazwa_zespolu |-> <<"P", "l", "a", "c", " ", "U+017B">>,
        szer_geo |-> 0, dlug_geo |-> 29] >>

\* extra_stop_groups.json: empty, or two more groups with the slug "pl_z",
\* the second of them as far from the position <<0, 20>> as the dataset's
\* group 1234 is
EXTRA_GROUPS_CHOICES ==
    { <<>>,
      << ExternalStopGroup(<<"9", "0", "0", "1">>, <<"p", "l", "_", "z">>, 0, 50),
         ExternalStopGroup(<<"9", "0", "0", "2">>, <<"p", "l", "_", "z">>, 0, 39) >> }

ResourceChoices == {[stops |-> STOPS_JSON, extra_groups |-> e] : e \in EXTRA_GROUPS_CHOICES}

VirtualUniverse ==
    << <<"1", "2", "3", "4", "0", "1">>, <<"1", "2", "3", "4", "3", "1">>,
       <<"1", "2", "3", "4", "8", "1">>, <<"1", "2", "3", "4", "8", "3">>,
       <<"6", "0", "5", "9", "0", "8">>, <<"6", "0", "5", "9", "2", "8">>,
       <<"6", "0", "5", "9", "8", "8">> >>

\* the stops table holding the ids of VirtualUniverse picked by `keep`
VirtualStopRows(keep) ==
    LET ids == SelectSeq(VirtualUniverse, LAMBDA i : i \in keep)
    IN  [k \in DOMAIN ids |-> Stop(ids[k], <<"X">>, <<>>, 0, 0)]

\* the most rows the routes table holds when MergeRoutes runs
MaxRoutes == 3

\* route ids of the feed: two that are no short name, two that are
RawRouteIds == {"A", "B", "1", "2"}

RawShortNames == {"1", "2"}

\* the routes tables of n rows: distinct ids, any short names, any row order
RawRouteRows(n) ==
    {r \in [1..n -> {Route(i, sn) : i \in RawRouteIds, sn \in RawShortNames}] :
        \A j, k \in 1..n : j # k => r[j].route_id # r[k].route_id}

\* one trip per route
TripsOf(rows) == [t \in DOMAIN rows |-> rows[t].route_id]

----------------------------------------------------------------------------
(* The tasks *)

NoDb == Db(<<>>, <<>>)

Init ==
    /\ task \in {"FixStops", "MergeVirtualStops", "MergeRoutes"}
    /\ pc = IF task = "MergeRoutes" THEN "begin" ELSE "start"
    /\ run = "first"
    /\ CASE task = "FixStops" ->
               /\ resources \in ResourceChoices
               /\ \E n \in 0..MaxStops : stops \in RawStopRows(n)
               /\ routes = <<>>
         [] task = "MergeVirtualStops" ->
               /\ resources = [stops |-> <<>>, extra_groups |-> <<>>]
               /\ \E keep \in SUBSET Range(VirtualUniverse) : stops = VirtualStopRows(keep)
               /\ routes = <<>>
         [] task = "MergeRoutes" ->
               /\ resources = [stops |-> <<>>, extra_groups |-> <<>>]
               /\ stops = <<>>
               /\ \E n \in 0..MaxRoutes : routes \in RawRouteRows(n)
    /\ trips = TripsOf(routes)
    /\ routes_before = RoutesDb(<<>>, <<>>)
    /\ routes_by_short_name = <<>>
    /\ merges = <<>>
    /\ stop_times = StopTimesOf(stops)
    /\ before = NoDb
    /\ first = NoDb
    /\ seen_ids = {}
    /\ external_groups_by_slug = <<>>
    /\ stops_list = <<>>
    /\ idx = 1
    /\ calls = <<>>
    /\ log = <<>>
    /\ all_ids = {}
    /\ virtual = {}
    /\ pending = {}
    /\ pairs = <<>>

\* FixStops.execute, up to the transaction
FixStopsStart ==
    /\ task = "FixStops"
    /\ pc = "start"
    /\ seen_ids' = seen_ids_clear(seen_ids)
    /\ external_groups_by_slug' = load_external_data(resources)
    /\ calls' = <<>>
    /\ pc' = "begin"
    /\ UNCHANGED <<task, run, resources, stops, stop_times, before, first, stops_list,
                   idx, log, all_ids, virtual, pending, pairs,
                   routes, trips, routes_before, routes_by_short_name, merges>>

\* MergeVirtualStops.execute, up to the transaction
MergeVirtualStopsStart ==
    /\ task = "MergeVirtualStops"
    /\ pc = "start"
    /\ all_ids' = get_all_stop_ids(Db(stops, stop_times))
    /\ virtual' = find_virtual_stops(all_ids')
    /\ pending' = virtual'
    /\ pairs' = <<>>
    /\ pc' = "begin"
    /\ UNCHANGED <<task, run, resources, stops, stop_times, before, first, seen_ids,
                   external_groups_by_slug, stops_list, idx, calls, log,
                   routes, trips, routes_before, routes_by_short_name, merges>>

\* entering `with r.db.transaction()`
Begin ==
    /\ pc = "begin"
    /\ before' = Db(stops, stop_times)
    /\ routes_before' = RoutesDb(routes, trips)
    /\ pc' = CASE task = "FixStops" -> "prefix"
               [] task = "MergeVirtualStops" -> "loop"
               [] task = "MergeRoutes" -> "select"
    /\ UNCHANGED <<task, run, resources, stops, stop_times, first, seen_ids,
                   external_groups_by_slug, stops_list, idx, calls, log, all_ids,
                   virtual, pending, pairs,
                   routes, trips, routes_by_short_name, merges>>

\* a statement's result inside the transaction: carry on, or roll back and raise
Settle(done, next_pc) ==
    LET db == IF done.ok THEN done.db ELSE Rollback(before)
    IN  /\ stops' = db.stops
        /\ stop_times' = db.stop_times
        /\ pc' = IF done.ok THEN next_pc ELSE "failed"

\* the prefixing UPDATE and retrieve_all(Stop)
FixStopsPrefix ==
    /\ task = "FixStops"
    /\ pc = "prefix"
    /\ LET done == sql_prefix_stop_ids(Db(stops, stop_times))
       IN  /\ Settle(done, "loop")
           /\ stops_list' = IF done.ok THEN done.db.stops ELSE stops_list
    /\ idx' = 1
    /\ UNCHANGED <<task, run, resources, before, first, seen_ids,
                   external_groups_by_slug, calls, log, all_ids, virtual, pending, pairs,
                   routes, trips, routes_before, routes_by_short_name, merges>>

\* one turn of `for stop in stops: self.process_stop(stop, r.db)`
FixStopsProcessStop ==
    /\ task = "FixStops"
    /\ pc = "loop"
    /\ idx <= Len(stops_list)
    /\ LET done == process_stop(stops_list[idx], Db(stops, stop_times), seen_ids,
                                external_groups_by_slug)
       IN  /\ Settle(done, "loop")
           /\ seen_ids' = done.seen_ids
           /\ log' = log \o done.logged
           /\ calls' = Append(calls, done.call)
           /\ stops_list' = [stops_list EXCEPT ![idx].id =
                                IF done.ok /\ done.call.kind = "rename"
                                THEN done.call.ret ELSE @]
    /\ idx' = idx + 1
    /\ UNCHANGED <<task, run, resources, before, first, external_groups_by_slug,
                   all_ids, virtual, pending, pairs,
                   routes, trips, routes_before, routes_by_short_name, merges>>

\* one turn of the for loop of MergeVirtualStops.execute; a set is iterated in
\* an order the program does not choose
MergeVirtualStopsNext ==
    /\ task = "MergeVirtualStops"
    /\ pc = "loop"
    /\ \E id \in pending :
          LET done == merge_virtual_stop(id, all_ids, Db(stops, stop_times))
          IN  /\ Settle(done, "loop")
              /\ log' = log \o done.logged
              /\ pairs' = Append(pairs, done.pair)
              /\ pending' = pending \ {id}
    /\ UNCHANGED <<task, run, resources, before, first, seen_ids,
                   external_groups_by_slug, stops_list, idx, calls, all_ids, virtual,
                   routes, trips, routes_before, routes_by_short_name, merges>>

\* the SELECT loop of MergeRoutes.execute
MergeRoutesSelect ==
    /\ task = "MergeRoutes"
    /\ pc = "select"
    /\ routes_by_short_name' = group_routes_by_short_name(routes, <<>>)
    /\ idx' = 1
    /\ merges' = <<>>
    /\ pc' = "loop"
    /\ UNCHANGED <<task, run, resources, stops, stop_times, before, first, seen_ids,
                   external_groups_by_slug, stops_list, calls, log, all_ids, virtual,
                   pending, pairs, routes, trips, routes_before>>

\* one turn of `for short_name, ids in routes_by_short_name.items()`
MergeRoutesNext ==
    /\ task = "MergeRoutes"
    /\ pc = "loop"
    /\ idx <= Len(routes_by_short_name)
    /\ LET item == routes_by_short_name[idx]
           done == merge_routes(item.short_name, item.ids, RoutesDb(routes, trips))
       IN  /\ routes' = IF done.ok THEN done.db.routes ELSE routes_before.routes
           /\ trips' = IF done.ok THEN done.db.trips ELSE routes_before.trips
           /\ pc' = IF done.ok THEN "loop" ELSE "failed"
           /\ merges' = Append(merges, [short_name |-> item.short_name,
                                        ids |-> item.ids, ok |-> done.ok])
    /\ idx' = idx + 1
    /\ UNCHANGED <<task, run, resources, stops, stop_times, before, first, seen_ids,
                   external_groups_by_slug, stops_list, calls, log, all_ids, virtual,
                   pending, pairs, routes_before, routes_by_short_name>>

LoopDone ==
    CASE task = "FixStops" -> idx > Len(stops_list)
      [] task = "MergeVirtualStops" -> pending = {}
      [] task = "MergeRoutes" -> idx > Len(routes_by_short_name)

\* leaving `with r.db.transaction()` normally: COMMIT
Commit ==
    /\ pc = "loop"
    /\ LoopDone
    /\ pc' = "done"
    /\ first' = IF task = "FixStops" /\ run = "first" THEN Db(stops, stop_times) ELSE first
    /\ UNCHANGED <<task, run, resources, stops, stop_times, before, seen_ids,
                   external_groups_by_slug, stops_list, idx, calls, log, all_ids,
                   virtual, pending, pairs,
                   routes, trips, routes_before, routes_by_short_name, merges>>

\* a statement, or the COMMIT, raises sqlite3.Error inside the transaction:
\* ROLLBACK, and the exception leaves execute
DbError ==
    /\ pc \in {"prefix", "select", "loop"}
    /\ Settle(Refused(Db(stops, stop_times)), "failed")
    /\ routes' = routes_before.routes
    /\ trips' = routes_before.trips
    /\ UNCHANGED <<task, run, resources, before, first, seen_ids,
                   external_groups_by_slug, stops_list, idx, calls, log, all_ids,
                   virtual, pending, pairs,
                   routes_before, routes_by_short_name, merges>>

\* the pipeline is run again on the feed the first run produced
FixStopsAgain ==
    /\ task = "FixStops"
    /\ pc = "done"
    /\ run = "first"
    /\ run' = "second"
    /\ pc' = "start"
    /\ UNCHANGED <<task, resources, stops, stop_times, before, first, seen_ids,
                   external_groups_by_slug, stops_list, idx, calls, log, all_ids,
                   virtual, pending, pairs,
                   routes, trips, routes_before, routes_by_short_name, merges>>

Next ==
    \/ FixStopsStart
    \/ MergeVirtualStopsStart
    \/ Begin
    \/ FixStopsPrefix
    \/ FixStopsProcessStop
    \/ MergeVirtualStopsNext
    \/ MergeRoutesSelect
    \/ MergeRoutesNext
    \/ Commit
    \/ DbError
    \/ FixStopsAgain

Spec == Init /\ [][Next]_vars

----------------------------------------------------------------------------
(* Properties of FixStops.match_stop *)

\* exactly two characters, each in "0".."9"
TwoDigits(code) == Len(code) = 2 /\ code[1] \in Digits /\ code[2] \in Digits

\* the groups the slug index holds for the stop's name
Candidates(stop) == DictGet(external_groups_by_slug, slugify_name(stop.name))

Resolved(c) == c.ret # <<>>

\* C1: for a stop whose code is two digits, an id that match_stop returns is
\* the chosen group's 4-character id followed by the stop's code, the group
\* being one the slug index holds for the stop's name; its suffix is the code.
C1_ResolvedIdIsGroupIdPlusCode ==
    \A k \in DOMAIN calls :
        LET c == calls[k]
        IN  TwoDigits(c.stop.code) /\ Resolved(c) =>
                /\ c.group \in Range(Candidates(c.stop))
                /\ Len(c.group.id) = 4
                /\ Len(c.ret) = 6
                /\ SubSeq(c.ret, 1, 4) = c.group.id
                /\ SubSeq(c.ret, 5, 6) = c.stop.code

C1_Witness ==
    \E k \in DOMAIN calls : TwoDigits(calls[k].stop.code) /\ Resolved(calls[k])

\* C2: whenever match_stop returns an id built from a group, the haversine
\* distance between the stop and that group's centroid is at most 1.5 km, on
\* the unique-candidate path and on the multiple-candidate path.
C2_AcceptedWithinThreshold ==
    \A k \in DOMAIN calls :
        LET c == calls[k]
        IN  Resolved(c) =>
                /\ c.group \in Range(Candidates(c.stop))
                /\ c.ret = c.group.id \o c.stop.code
                /\ distance_km(c.stop.lat, c.stop.lon, c.group.lat, c.group.lon)
                       <= TOO_FAR_METRES

\* one run resolves a stop with a single candidate and a stop with several
C2_Witness ==
    /\ \E k \in DOMAIN calls : Resolved(calls[k]) /\ Len(Candidates(calls[k].stop)) = 1
    /\ \E k \in DOMAIN calls : Resolved(calls[k]) /\ Len(Candidates(calls[k].stop)) > 1

----------------------------------------------------------------------------
(* Properties of FixStops.execute *)

FixStopsDone == task = "FixStops" /\ pc = "done"

\* the id the k-th stop of this run had when the run began
IdBefore(k) == before.stops[k].id

\* the stop_times rows that referenced the k-th stop when the run began
RowsBefore(k) == {r \in DOMAIN before.stop_times : before.stop_times[r] = IdBefore(k)}

\* C3: after a full run every id of seen_ids was assigned by exactly one rename
\* and is the id of exactly one surviving stop, no two surviving stops share an
\* id, and for every merge event the duplicate is gone, no stop_times row
\* references it under its raw or its prefixed id, and each row that referenced
\* it references the already-assigned target, which is a surviving stop.
C3_MergeInvariant ==
    FixStopsDone =>
        /\ \A j, k \in DOMAIN stops : j # k => stops[j].id # stops[k].id
        /\ \A id \in seen_ids :
              /\ Cardinality({k \in DOMAIN calls :
                                 calls[k].kind = "rename" /\ calls[k].ret = id}) = 1
              /\ id \in StopIds(stops)
        /\ \A k \in DOMAIN calls :
              calls[k].kind = "merge" =>
                  /\ calls[k].stop.id = GTFS_PREFIX \o IdBefore(k)
                  /\ calls[k].stop.id \notin StopIds(stops)
                  /\ calls[k].ret \in seen_ids
                  /\ \A r \in DOMAIN stop_times :
                        stop_times[r] \notin {IdBefore(k), calls[k].stop.id}
                  /\ \A r \in RowsBefore(k) :
                        r \in DOMAIN stop_times /\ stop_times[r] = calls[k].ret

C3_Witness ==
    /\ FixStopsDone
    /\ \E k \in DOMAIN calls : calls[k].kind = "merge" /\ RowsBefore(k) # {}

HasPrefix(id) == Len(id) >= Len(GTFS_PREFIX) /\ Prefix(id, Len(GTFS_PREFIX)) = GTFS_PREFIX

\* every stop the first run left carries a resolved id
FullyResolved(db) == \A k \in DOMAIN db.stops : ~HasPrefix(db.stops[k].id)

\* C4: a second run of FixStops.execute on a stop set the first run resolved
\* completely, with the same external data, leaves the stops table and the
\* stop_id of every stop_times row as the first run left them.
C4_SecondRunChangesNothing ==
    FixStopsDone /\ run = "second" /\ FullyResolved(first) =>
        /\ stops = first.stops
        /\ stop_times = first.stop_times

C4_Witness ==
    /\ FixStopsDone
    /\ run = "second"
    /\ FullyResolved(first)
    /\ Len(first.stops) = 2
    /\ \E k \in DOMAIN calls : calls[k].kind = "rename"

\* C5: the tables change only inside the transaction of a pass, and a pass
\* that fails leaves stops and stop_times exactly as they were when it began;
\* this covers FixStops.execute and MergeVirtualStops.execute.
C5_PassIsAtomic ==
    [][/\ (stops' # stops \/ stop_times' # stop_times) => pc \in {"prefix", "loop"}
       /\ pc' = "failed" => /\ stops' = before.stops
                            /\ stop_times' = before.stop_times
                            /\ before' = before
       /\ pc = "begin" => before' = Db(stops, stop_times)]_vars

\* a pass failed after it had already rewritten a stop id
C5_Witness ==
    /\ pc = "failed"
    /\ \E k \in DOMAIN calls : calls[k].kind = "merge" /\ calls[k].ok
    /\ stops = before.stops
    /\ stop_times = before.stop_times

\* C6: a stop that match_stop does not resolve never aborts the run: its call
\* raises nothing, the stop stays in the table under "_gtfs_" + its original id
\* with every other field as it was, its stop_times rows all remain and follow
\* that id, and once the run is done every stop of the list has been processed.
C6_UnresolvedStaysPrefixed ==
    task = "FixStops" /\ pc \in {"loop", "done"} =>
        /\ \A k \in DOMAIN calls :
              ~Resolved(calls[k]) =>
                  /\ calls[k].ok
                  /\ calls[k].kind = "unresolved"
                  /\ [before.stops[k] EXCEPT !.id = GTFS_PREFIX \o IdBefore(k)]
                         \in Range(stops)
                  /\ Cardinality({j \in DOMAIN stops :
                                     stops[j].id = GTFS_PREFIX \o IdBefore(k)}) = 1
                  /\ \A r \in RowsBefore(k) :
                        /\ r \in DOMAIN stop_times
                        /\ stop_times[r] = GTFS_PREFIX \o IdBefore(k)
        /\ pc = "done" => Len(calls) = Len(before.stops)

\* an unresolved stop is followed by a stop that is processed and resolved
C6_Witness ==
    /\ FixStopsDone
    /\ \E j, k \in DOMAIN calls : j < k /\ ~Resolved(calls[j]) /\ Resolved(calls[k])

----------------------------------------------------------------------------
(* Properties of the rejections of match_stop *)

\* why match_stop turns the stop of call c down, read off the stop itself
ReasonOf(c) ==
    IF ~re_match_code(c.stop.code) THEN "invalid code"
    ELSE IF Candidates(c.stop) = <<>> THEN "unknown group slug"
    ELSE IF distance_km(c.stop.lat, c.stop.lon, c.group.lat, c.group.lon) > TOO_FAR_METRES
    THEN "too far"
    ELSE "none"

\* C7, as claimed: the values match_stop returns for rejections with different
\* reasons (invalid code, unknown slug, too far) are pairwise different.
C7_RejectionsReturnDistinctValues ==
    \A j, k \in DOMAIN calls :
        LET rj == ReasonOf(calls[j])
            rk == ReasonOf(calls[k])
        IN  rj # "none" /\ rk # "none" /\ rj # rk => calls[j].ret # calls[k].ret

\* C7, amended: every rejection returns the same value, the empty string, and
\* the three reasons differ only in the one record match_stop logs: an error
\* "invalid code", a warning "unknown group slug" or a warning "too far"; an
\* accepted stop returns a non-empty id and logs nothing.
C7_RejectionsDifferOnlyInLog ==
    \A k \in DOMAIN calls :
        LET c == calls[k]
            reason == ReasonOf(c)
        IN  IF reason = "none"
            THEN c.ret # <<>> /\ c.logged = <<>>
            ELSE /\ c.ret = <<>>
                 /\ c.logged = <<[level |-> IF reason = "invalid code" THEN "error"
                                            ELSE "warning",
                                  msg |-> reason,
                                  stop |-> c.stop.id]>>

\* one run rejects two stops for different reasons
C7_Witness ==
    \E j, k \in DOMAIN calls :
        /\ ReasonOf(calls[j]) = "too far"
        /\ ReasonOf(calls[k]) \in {"invalid code", "unknown group slug"}
        /\ calls[j].ret = calls[k].ret

\* C8: a stop whose code is not exactly two characters "0".."9" is rejected
\* by match_stop, whatever its name and position, and is never renamed or
\* merged into an external id.
C8_CodeCheckIsExact ==
    \A k \in DOMAIN calls :
        ~TwoDigits(calls[k].stop.code) =>
            /\ calls[k].ret = <<>>
            /\ calls[k].kind = "unresolved"

----------------------------------------------------------------------------
(* Properties of MergeVirtualStops *)

Id605988 == <<"6", "0", "5", "9", "8", "8">>

Id605928 == <<"6", "0", "5", "9", "2", "8">>

Id123481 == <<"1", "2", "3", "4", "8", "1">>

Id123483 == <<"1", "2", "3", "4", "8", "3">>

Id123431 == <<"1", "2", "3", "4", "3", "1">>

\* the positions i of RANGE_8 for which the id with its fifth character
\* replaced by RANGE_8[i] is in all_ids
SiblingsFifth(id) ==
    {i \in DOMAIN RANGE_8 : SubSeq(id, 1, 4) \o <<RANGE_8[i]>> \o SubSeq(id, 6, Len(id)) \in all_ids}

\* the same for the sixth, the last, character of a six-character id, the id
\* itself left out
SiblingsSixth(id) ==
    {i \in DOMAIN RANGE_8 : SubSeq(id, 1, 5) \o <<RANGE_8[i]>> \in all_ids \ {id}}

FirstSibling(id) ==
    LET i == CHOOSE i \in SiblingsFifth(id) : \A j \in SiblingsFifth(id) : i <= j
    IN  SubSeq(id, 1, 4) \o <<RANGE_8[i]>> \o SubSeq(id, 6, Len(id))

\* C9, as claimed: for every set of stop ids the replacement found for 605988
\* is 605928.
C9_ExceptionAlwaysWins ==
    \A k \in DOMAIN pairs : pairs[k].old_id = Id605988 => pairs[k].new_id = Id605928

\* C9, amended: when 605928 is among the stop ids the replacement found for
\* 605988 is 605928, whatever siblings exist; when it is not, the general rule
\* decides: the first existing id among 605908, 605918, ..., 605978, or none.
C9_ExceptionWinsWhenTargetExists ==
    \A k \in DOMAIN pairs :
        pairs[k].old_id = Id605988 =>
            pairs[k].new_id =
                IF Id605928 \in all_ids THEN Id605928
                ELSE IF SiblingsFifth(Id605988) # {} THEN FirstSibling(Id605988)
                ELSE None

\* 605988 went to 605928 although the general rule would have picked 605908
C9_Witness ==
    \E k \in DOMAIN pairs :
        /\ pairs[k].old_id = Id605988
        /\ pairs[k].new_id = Id605928
        /\ FirstSibling(Id605988) # Id605928

RowsOfBefore(id) == {r \in DOMAIN before.stop_times : before.stop_times[r] = id}

MergedInto(old, new) ==
    /\ old \notin StopIds(stops)
    /\ new \in StopIds(stops)
    /\ \A r \in DOMAIN stop_times : stop_times[r] # old
    /\ \A r \in RowsOfBefore(old) : r \in DOMAIN stop_times /\ stop_times[r] = new

LeftInPlace(id) ==
    /\ id \in StopIds(stops)
    /\ \A r \in RowsOfBefore(id) : r \in DOMAIN stop_times /\ stop_times[r] = id

\* C10, as claimed: when, among 123480..123487, only 123483 exists, the
\* virtual stop 123481 is merged into 123483.
C10_MergesIntoLastDigitSibling ==
    \A k \in DOMAIN pairs :
        pairs[k].old_id = Id123481 /\ SiblingsSixth(Id123481) = {4} =>
            pairs[k].new_id = Id123483

\* C10, amended: the siblings of 123481 are 123401, 123411, ..., 123471 (the
\* fifth character replaced).  When only 123431 exists among them, 123481 is
\* merged into 123431: its stop_times rows are repointed and the stop deleted.
\* When none of them exists 123481 is left in place with its rows, whether or
\* not 123483 exists.
C10_MergesIntoFifthDigitSibling ==
    task = "MergeVirtualStops" /\ pc \in {"loop", "done"} =>
        \A k \in DOMAIN pairs :
            pairs[k].old_id = Id123481 =>
                /\ SiblingsFifth(Id123481) = {4} =>
                       pairs[k].new_id = Id123431 /\ MergedInto(Id123481, Id123431)
                /\ SiblingsFifth(Id123481) = {} =>
                       pairs[k].new_id = None /\ LeftInPlace(Id123481)

\* 123481 was merged into 123431 while 123483 existed
C10_Witness ==
    /\ task = "MergeVirtualStops"
    /\ pc = "done"
    /\ Id123483 \in all_ids
    /\ SiblingsFifth(Id123481) = {4}
    /\ \E k \in DOMAIN pairs : pairs[k].old_id = Id123481 /\ pairs[k].new_id = Id123431
    /\ RowsOfBefore(Id123481) # {}

----------------------------------------------------------------------------
(* C11 *)

\* squared Euclidean distance in coordinate space between a group and a stop
EuclidSq(g, stop) ==
    (g.lat - stop.lat) * (g.lat - stop.lat) + (g.lon - stop.lon) * (g.lon - stop.lon)

\* the groups of `groups` with the slug `slug`, in order
WithSlug(groups, slug) == SelectSeq(groups, LAMBDA g : g.slug = slug)

\* the ids of the groups the external stop dataset yields: the first four
\* characters of the id of every stop that is not a metro stop
DerivedGroupIds ==
    { resources.stops[k].zespol : k \in { j \in DOMAIN resources.stops :
          LET id == resources.stops[j].zespol \o resources.stops[j].slupek
          IN  SubSeq(id, 2, 3) \notin { <<"6", "0">>, <<"6", "1">> } } }

\* C11: for a stop whose code passed the check, a slug with no group rejects
\* the stop as "unknown group slug"; with several groups the chosen group is
\* at least as near (Euclidean, in coordinate space) as every other one and
\* strictly nearer than every one before it in the slug index's list; that
\* list holds the extra groups with the slug, in their order, followed by
\* groups derived from the external stop dataset.
C11_NearestFirstInListIsChosen ==
    \A k \in DOMAIN calls :
        LET c == calls[k]
            cands == Candidates(c.stop)
            extras == WithSlug(resources.extra_groups, slugify_name(c.stop.name))
        IN  re_match_code(c.stop.code) =>
                /\ Len(cands) = 0 =>
                        /\ c.ret = <<>>
                        /\ c.logged = <<LogRecord("warning", "unknown group slug", c.stop)>>
                /\ Len(cands) >= Len(extras)
                /\ SubSeq(cands, 1, Len(extras)) = extras
                /\ \A j \in (Len(extras) + 1)..Len(cands) : cands[j].id \in DerivedGroupIds
                /\ Len(cands) > 1 =>
                        \E i \in DOMAIN cands :
                            /\ c.group = cands[i]
                            /\ \A j \in DOMAIN cands :
                                   EuclidSq(cands[i], c.stop) <= EuclidSq(cands[j], c.stop)
                            /\ \A j \in 1..(i - 1) :
                                   EuclidSq(cands[j], c.stop) > EuclidSq(cands[i], c.stop)

\* a stop whose slug has an extra group and a derived group equally near,
\* neither of them the first of the list, was given the extra group; and a
\* stop whose slug has no group was processed
C11_Witness ==
    /\ \E k \in DOMAIN calls :
           LET c == calls[k]
               cands == Candidates(c.stop)
           IN  /\ re_match_code(c.stop.code)
               /\ Len(cands) = 3
               /\ EuclidSq(cands[2], c.stop) = EuclidSq(cands[3], c.stop)
               /\ EuclidSq(cands[1], c.stop) > EuclidSq(cands[2], c.stop)
               /\ c.group = cands[2]
               /\ cands[2] \in Range(resources.extra_groups)
               /\ cands[3].id \in DerivedGroupIds
    /\ \E k \in DOMAIN calls :
           re_match_code(calls[k].stop.code) /\ Len(Candidates(calls[k].stop)) = 0

----------------------------------------------------------------------------
(* C12 *)

MergeVirtualStopsDone == task = "MergeVirtualStops" /\ pc = "done"

\* four digits, an 8 and a digit from 1 to 9
IsVirtualId(id) ==
    /\ Len(id) = 6
    /\ \A k \in 1..4 : id[k] \in Digits
    /\ id[5] = "8"
    /\ id[6] \in Digits \ {"0"}

VirtualBefore == {id \in StopIds(before.stops) : IsVirtualId(id)}

\* the sibling a virtual stop with a sibling is merged into
MergeTarget(id) ==
    IF id = Id605988 /\ Id605928 \in StopIds(before.stops) THEN Id605928 ELSE FirstSibling(id)

\* C12: when the Virtual-Stop Merger has run on stops whose stop_times rows
\* all reference an existing stop, every row is still there and references an
\* existing stop; a virtual stop with a sibling is gone and its rows point at
\* the sibling, which is not a virtual stop and still exists; a virtual stop
\* with no sibling for any of the digits 0-7 is in place with its rows; and
\* no other stop was removed.
C12_MergerKeepsReferentialIntegrity ==
    MergeVirtualStopsDone =>
        /\ \A r \in DOMAIN before.stop_times : before.stop_times[r] \in StopIds(before.stops)
        /\ DOMAIN stop_times = DOMAIN before.stop_times
        /\ \A r \in DOMAIN stop_times : stop_times[r] \in StopIds(stops)
        /\ \A id \in VirtualBefore :
               IF SiblingsFifth(id) # {}
               THEN /\ MergedInto(id, MergeTarget(id))
                    /\ MergeTarget(id) \notin VirtualBefore
                    /\ [old_id |-> id, new_id |-> MergeTarget(id)] \in Range(pairs)
               ELSE LeftInPlace(id)
        /\ StopIds(stops) = StopIds(before.stops) \ {id \in VirtualBefore : SiblingsFifth(id) # {}}
        /\ \A r \in DOMAIN stop_times :
               before.stop_times[r] \notin VirtualBefore => stop_times[r] = before.stop_times[r]

\* a pass that merged two virtual stops, each with rows, and left a third
\* one, which has no sibling, in place
C12_Witness ==
    /\ MergeVirtualStopsDone
    /\ Cardinality({id \in VirtualBefore : SiblingsFifth(id) # {} /\ RowsOfBefore(id) # {}}) >= 2
    /\ \E id \in VirtualBefore :
           SiblingsFifth(id) = {} /\ RowsOfBefore(id) # {} /\ LeftInPlace(id)

----------------------------------------------------------------------------
(* C13 *)

\* the short names of the routes table as of BEGIN
ShortNamesBefore == {routes_before.routes[k].short_name : k \in DOMAIN routes_before.routes}

\* the ids the routes with short name sn had as of BEGIN
IdsBefore(sn) ==
    {routes_before.routes[k].route_id :
        k \in {j \in DOMAIN routes_before.routes : routes_before.routes[j].short_name = sn}}

\* one route per short name, named after it, carrying the trips of all the
\* routes that had the short name
OneRoutePerShortName ==
    /\ \A sn \in ShortNamesBefore :
           /\ Cardinality({k \in DOMAIN routes : routes[k].short_name = sn}) = 1
           /\ \A k \in DOMAIN routes : routes[k].short_name = sn => routes[k].route_id = sn
    /\ \A k \in DOMAIN routes : routes[k].short_name \in ShortNamesBefore
    /\ DOMAIN trips = DOMAIN routes_before.trips
    /\ \A t \in DOMAIN trips :
           \A sn \in ShortNamesBefore : routes_before.trips[t] \in IdsBefore(sn) => trips[t] = sn

\* C13, as claimed: for any routes table no UPDATE of MergeRoutes collides
\* with an existing route_id, so the pass is never refused by the database,
\* and when it has run there is exactly one route per short name that was
\* present, its route_id is the short name, and every trip of a route with
\* that short name references it.
C13_MergeRoutesNeverCollides ==
    task = "MergeRoutes" =>
        /\ \A k \in DOMAIN merges : merges[k].ok
        /\ pc = "done" => OneRoutePerShortName

----------------------------------------------------------------------------
(* C14 *)

\* the ids match_stop returned in this run
ResolvedIds == {calls[k].ret : k \in {j \in DOMAIN calls : Resolved(calls[j])}}

\* the first call of this run that resolved to id
FirstResolver(id) ==
    CHOOSE k \in DOMAIN calls :
        /\ calls[k].ret = id
        /\ \A j \in 1..(k - 1) : calls[j].ret # id

\* C14: at every step of a FixStops pass the stop ids are pairwise distinct
\* and no rename was refused because its target id was already in the stops
\* table; after the pass every stop id is in seen_ids or starts with "_gtfs_",
\* not both, the number of stops is the number of unresolved stops plus the
\* number of distinct resolved ids, and the stop carrying a resolved id is the
\* first stop in processing order that resolved to it.
C14_IdSpacePartition ==
    task = "FixStops" =>
        /\ \A j, k \in DOMAIN stops : j # k => stops[j].id # stops[k].id
        /\ \A k \in DOMAIN calls : calls[k].kind = "rename" => calls[k].ok
        /\ pc = "done" =>
               /\ \A k \in DOMAIN stops : (stops[k].id \in seen_ids) # HasPrefix(stops[k].id)
               /\ seen_ids = ResolvedIds
               /\ Len(stops) = Cardinality({k \in DOMAIN calls : ~Resolved(calls[k])})
                                   + Cardinality(ResolvedIds)
               /\ \A id \in ResolvedIds :
                      \A k \in DOMAIN stops :
                          stops[k].id = id =>
                              stops[k] = [before.stops[FirstResolver(id)] EXCEPT !.id = id]

\* a pass in which two stops that differ in more than their id resolved to
\* the same id, and the first of them is the one left
C14_Witness ==
    /\ FixStopsDone
    /\ Len(calls) = 2
    /\ Resolved(calls[1])
    /\ calls[1].ret = calls[2].ret
    /\ [before.stops[1] EXCEPT !.id = <<>>] # [before.stops[2] EXCEPT !.id = <<>>]
    /\ stops = <<[before.stops[1] EXCEPT !.id = calls[1].ret]>>

====
